---- MODULE Spec2Model ----
(***************************************************************************)
(* Model of steam_bot: SteamBot.start / postGames and the pipeline they    *)
(* drive (src/src/SteamBot.ts), the posted-games ledger DB                 *)
(* (src/unnamed/part_001) and the cached Config (src/unnamed/part_000).    *)
(*                                                                         *)
(* A pass is one call of postGames(await fetchGameIds()).  Pass 1 is the   *)
(* boot pass awaited by start(); every later pass is started by a CronJob  *)
(* tick, whatever the earlier passes are doing, so passes interleave at    *)
(* their awaits.  A step of a pass runs from one await on state that       *)
(* passes share up to the next one.                                        *)
(*                                                                         *)
(* Spec is the whole program.  SpecConfig is Spec with the configuration   *)
(* file edited while the process runs.  SpecDb is Spec with the await of   *)
(* open() inside DB.getDb as a step of its own.  SpecDispatch is the       *)
(* dispatch of one item of any payload and SpecOrder the filter and sort   *)
(* of any collected list: the same steps, entered with inputs beyond the   *)
(* small catalog of Spec.                                                  *)
(***************************************************************************)
EXTENDS Integers, Sequences, FiniteSets, TLC

\* ---------------------------------------------------------------- bounds
MaxPasses == 3      \* passes started in a behaviour (boot pass included)
MaxId     == 2      \* app ids are 1..MaxId
MaxItems  == 2      \* ids listed by all the search pages of a behaviour

Passes == 1..MaxPasses
Ids    == 1..MaxId

\* ------------------------------------------------------------ environment
\* Date.now() of the filter, in days.
Now == 10

NaN == -1           \* getTime() of an Invalid Date

\* release_date.date strings of the store and what new Date(s).getTime() gives
GetTime(s) ==
    CASE s = "1 Jan, 2024"  -> 1
      [] s = "2 Jan, 2024"  -> 2
      [] s = "10 Jan, 2024" -> 10
      [] s = "1 Jan, 2030"  -> 20
      [] OTHER              -> NaN      \* "Coming soon", "To be announced", ""

\* String(appId) as bound to the TEXT column app_id
ToText(id) == <<"1", "2", "3", "4", "5", "6", "7", "8", "9">>[id]

TextIds == {ToText(id) : id \in Ids}

\* Names in the order localeCompare puts them
NameOrder == <<"Alpha", "Zeta">>
NameRank(n) == CHOOSE r \in 1..Len(NameOrder) : NameOrder[r] = n

LocaleCompare(a, b) ==
    IF NameRank(a) < NameRank(b) THEN -1
    ELSE IF NameRank(a) > NameRank(b) THEN 1 ELSE 0

\* An optional field f of IGameMeta is the record [present, ...]; type uses
\* the string "absent" for undefined.
Undefined == "absent"

\* screenshots is [present, n]: the array, when there is one, has n entries
\* and the url of its i-th entry is written i.  movies is [present, n, mp4]:
\* mp4 tells whether the entries carry the mp4 field.
\* What the store knows of an app.  Odd ids are "Zeta", even ids "Alpha";
\* app 1 is a co-op game with a screenshot and a trailer, app 2 a
\* multi-player game with twelve screenshots and no trailer, every other app
\* a solo demo without media.
NameOf(id) == IF id % 2 = 1 THEN "Zeta" ELSE "Alpha"
DateOf(id) == IF id <= 2 THEN "1 Jan, 2024" ELSE "2 Jan, 2024"
TypeOf(id) == IF id <= 2 THEN "game" ELSE "Demo"
CategoriesOf(id) == IF id = 1 THEN {9} ELSE IF id = 2 THEN {1, 36} ELSE {2}
ScreenshotsOf(id) ==
    IF id = 1 THEN [present |-> TRUE, n |-> 1]
    ELSE IF id = 2 THEN [present |-> TRUE, n |-> 12]
    ELSE [present |-> FALSE, n |-> 0]
MoviesOf(id) ==
    IF id = 1 THEN [present |-> TRUE, n |-> 1, mp4 |-> TRUE]
    ELSE [present |-> FALSE, n |-> 0, mp4 |-> TRUE]

BaseMeta(id) ==
    [ steam_appid  |-> id,
      type         |-> TypeOf(id),
      name         |-> NameOf(id),
      categories   |-> [present |-> TRUE, ids |-> CategoriesOf(id)],
      release_date |-> [present |-> TRUE, coming_soon |-> FALSE, date |-> DateOf(id)],
      screenshots  |-> ScreenshotsOf(id),
      movies       |-> MoviesOf(id) ]

\* A payload that lacks a field the classification reads: categories for odd
\* ids, type for even ids
Partial(id) ==
    IF id % 2 = 1
    THEN [BaseMeta(id) EXCEPT !.categories = [present |-> FALSE, ids |-> {}]]
    ELSE [BaseMeta(id) EXCEPT !.type = Undefined]

\* The appdetails payloads the store can answer with for one id: the released
\* app, the app announced as coming soon, and payloads with fields missing
MetaSamples(id) ==
    { BaseMeta(id),
      [BaseMeta(id) EXCEPT !.release_date = [present |-> TRUE, coming_soon |-> TRUE, date |-> "Coming soon"]],
      Partial(id),
      [BaseMeta(id) EXCEPT !.release_date = [present |-> FALSE, coming_soon |-> FALSE, date |-> ""]] }

RECURSIVE SeqsUpTo(_, _)
SeqsUpTo(S, n) ==
    IF n = 0 THEN {<<>>}
    ELSE LET shorter == SeqsUpTo(S, n - 1)
         IN  shorter \cup {Append(s, x) : s \in shorter, x \in S}

\* The id lists the search page can carry (an id may be listed twice)
Listings == SeqsUpTo(Ids, MaxItems)


\* ---------------------------------------------------- pure pipeline code
ToLowerCase(s) ==
    CASE s = "Demo" -> "demo"
      [] s = "DEMO" -> "demo"
      [] s = "Game" -> "game"
      [] OTHER      -> s

CoopIds  == {9, 38}
MultiIds == {1, 36, 49}

\* meta.type.toLowerCase() and meta.categories.filter(...) raise a TypeError
\* on an undefined field; postGames evaluates all three tests for every item.
IsDemoThrows(meta) == meta.type = Undefined
IsCoopThrows(meta) == ~meta.categories.present

ClassifyThrows(meta) == IsDemoThrows(meta) \/ IsCoopThrows(meta)

isDemo(meta)  == ToLowerCase(meta.type) = "demo"
isCoop(meta)  == meta.categories.ids \cap CoopIds # {}
isMulti(meta) == meta.categories.ids \cap MultiIds # {}

\* A choice that tests the co-op codes before the type
Category_CoopFirst(meta) ==
    IF isCoop(meta) THEN "coop"
    ELSE IF isDemo(meta) THEN "demo"
    ELSE IF isMulti(meta) THEN "multi" ELSE "solo"

\* postGames: the nested conditional that picks the webhook and the type
Category(meta) ==
    IF isDemo(meta) THEN "demo"
    ELSE IF isCoop(meta) THEN "coop"
    ELSE IF isMulti(meta) THEN "multi" ELSE "solo"

\* config.webhookUrlDemo / Coop / Multi / Solo of the mapping cfg holds
WebhookUrl(cfg, category) == [mapping |-> cfg.webhookUrls, channel |-> category]

\* A filter that looks at the date alone
filterReleased_DateOnly(meta) ==
    GetTime(meta.release_date.date) # NaN /\ GetTime(meta.release_date.date) <= Now

\* filterReleased: meta.release_date.date raises on an undefined release_date
FilterThrows(meta) == ~meta.release_date.present

filterReleased(meta) ==
    LET releaseDate == GetTime(meta.release_date.date)
    IN  /\ ~meta.release_date.coming_soon
        /\ releaseDate # NaN            \* NaN <= x is false
        /\ releaseDate <= Now

\* compareReleaseDatesOrNames; a NaN result is read as +0 by Array.sort
compareReleaseDatesOrNames(a, b) ==
    LET dateA == GetTime(a.release_date.date)
        dateB == GetTime(b.release_date.date)
    IN  IF dateA = NaN \/ dateB = NaN THEN 0
        ELSE IF dateA - dateB # 0 THEN dateA - dateB
        ELSE LocaleCompare(b.name, a.name)

RECURSIVE FilterMetas(_)
FilterMetas(ms) ==
    IF ms = <<>> THEN <<>>
    ELSE IF filterReleased(Head(ms)) THEN <<Head(ms)>> \o FilterMetas(Tail(ms))
    ELSE FilterMetas(Tail(ms))

\* insert m behind every element that does not compare greater: a stable sort
RECURSIVE InsertSorted(_, _)
InsertSorted(m, sorted) ==
    IF sorted = <<>> THEN <<m>>
    ELSE IF compareReleaseDatesOrNames(Head(sorted), m) <= 0
         THEN <<Head(sorted)>> \o InsertSorted(m, Tail(sorted))
         ELSE <<m>> \o sorted

RECURSIVE SortMetas(_)
SortMetas(ms) ==
    IF ms = <<>> THEN <<>>
    ELSE InsertSorted(ms[Len(ms)], SortMetas(SubSeq(ms, 1, Len(ms) - 1)))

\* postGame, media section.  meta.screenshots[0].path_full of an empty array
\* and movie.mp4[480] of a movie without mp4 raise a TypeError, outside the
\* try block of the sends.
MediaThrows(meta, postThreads) ==
    \/ ~postThreads /\ meta.screenshots.present /\ meta.screenshots.n = 0
    \/ meta.movies.present /\ meta.movies.n > 0 /\ ~meta.movies.mp4

\* A slice that takes every element
Slice_All(s, from, to) == s

\* s.slice(from, to) of an array, from and to counted from 0
Slice(s, from, to) ==
    LET end == IF to < Len(s) THEN to ELSE Len(s)
    IN  IF from >= end THEN <<>> ELSE SubSeq(s, from + 1, end)

\* meta.screenshots.map(screenshot => screenshot.path_full), [] without one
ScreenshotUrls(meta) ==
    IF meta.screenshots.present THEN [i \in 1..meta.screenshots.n |-> i] ELSE <<>>

\* files of thread mode: name is the index of screenshot_<index>.png
FilesOf(meta, postThreads) ==
    IF postThreads
    THEN LET urls == Slice(ScreenshotUrls(meta), 0, 10)
         IN  [i \in 1..Len(urls) |-> [name |-> i - 1, attachment |-> urls[i]]]
    ELSE <<>>

\* files.length
Files(meta, postThreads) == Len(FilesOf(meta, postThreads))

TrailerLinks(meta, postThreads) ==
    IF postThreads /\ meta.movies.present THEN meta.movies.n ELSE 0

\* ------------------------------------------------------------- the state
VARIABLES
    startState,   \* start(): "booting", "armed" (job.start() ran), "rejected"
    nPasses,      \* passes started so far
    pc,           \* where each pass is
    ids,          \* postGames(ids)
    idx,          \* position of the for-of loop over ids
    metas,        \* metas being collected, then what the loop over the filtered
                  \* and sorted list has still to go through, current item first
    k,            \* iterations of the loop over metas begun so far
    fault,        \* the error a pass has thrown, "none" if none
    store,        \* SteamBot._store has been created
    config,       \* Config._config, [loaded, postThreads, webhookUrls]
    configFile,   \* the configuration on disk
    dbOpen,       \* DB._db holds a handle
    tableExists,  \* steam_games has been created
    ledger,       \* rows of steam_games: app_id text |-> number of rows
    log,          \* history: per pass, what happened to each dispatched item
    prev,         \* history: the pass that had returned last when this one began
    lastDone,     \* history: summary of the pass that returned last, kept if
                  \* no other pass was running then (a later one returns after it)
    okSends,      \* history: successful primary sends per id (counted up to 2)
    writeFailed,  \* history: ids with a failed ledger write after a good send
    nItems,       \* history: ids listed by the search pages so far
    absent,       \* history: per pass, the positions of ids whose metadata
                  \* fetchGameMeta returned undefined for
    feed,         \* history: per pass, how its search request ended
    opened        \* history: the database handles open() has resolved with

passVars == <<pc, ids, idx, metas, k, fault, log, prev, absent, feed>>
progVars == <<startState, nPasses, store, config, configFile, dbOpen, tableExists, ledger,
              opened>>
histVars == <<lastDone, okSends, writeFailed, nItems>>
vars == <<passVars, progVars, histVars>>

\* Config._config before the first successful read
NotLoaded == [loaded |-> FALSE, postThreads |-> FALSE, webhookUrls |-> "none"]

NoPrev == [known |-> FALSE, ids |-> <<>>, recorded |-> {}, failed |-> {}, clean |-> FALSE]

Running(p) == pc[p] \notin {"unstarted", "finished"}

\* The promise of postGames settles in the microtask queue of the step that
\* ended the pass: start() or the cron callback resumes before the await of
\* any other pass does.
NoneReturning == \A q \in Passes : pc[q] # "returning"

Init ==
    /\ startState = "booting"
    /\ nPasses = 1
    /\ pc = [p \in Passes |-> IF p = 1 THEN "fetchIds" ELSE "unstarted"]
    /\ ids = [p \in Passes |-> <<>>]
    /\ idx = [p \in Passes |-> 0]
    /\ metas = [p \in Passes |-> <<>>]
    /\ k = [p \in Passes |-> 0]
    /\ fault = [p \in Passes |-> "none"]
    /\ store = FALSE
    /\ config = NotLoaded
    /\ configFile \in [postThreads : BOOLEAN, webhookUrls : {"A"}]
    /\ dbOpen = FALSE
    /\ opened = 0
    /\ tableExists = FALSE
    /\ ledger = [t \in TextIds |-> 0]
    /\ log = [p \in Passes |-> <<>>]
    /\ prev = [p \in Passes |-> NoPrev]
    /\ absent = [p \in Passes |-> {}]
    /\ feed = [p \in Passes |-> "none"]
    /\ lastDone = NoPrev
    /\ okSends = [i \in Ids |-> 0]
    /\ writeFailed = {}
    /\ nItems = 0


\* ------------------------------------------------------- storage outcomes
\* What sqlite can do to one DB call: "ok", or an error at one of its awaits.
\* open() is only called while no handle is held.
ReadOutcomes  == {"ok", "openFails", "execFails", "getFails"}
WriteOutcomes == {"ok", "openFails", "execFails", "prepareFails", "runFails"}

Possible(outcome) == outcome = "openFails" => ~dbOpen

\* getDb / ensureSteamGameTable: what a call leaves behind in the DB object
DbOpenAfter(outcome)      == dbOpen \/ outcome # "openFails"
OpenedAfter(outcome)      == IF ~dbOpen /\ outcome # "openFails" THEN opened + 1 ELSE opened
TableExistsAfter(outcome) == tableExists \/ outcome \notin {"openFails", "execFails"}

\* A lookup that matches no row (the id bound in a form the column never holds)
hasGameBeenPosted_NoMatch(appId, outcome) ==
    IF outcome # "ok" THEN "throws" ELSE "false"

\* DB.hasGameBeenPosted: "true" / "false" / "throws"
hasGameBeenPosted(appId, outcome) ==
    IF outcome # "ok" THEN "throws"
    ELSE IF ledger[ToText(appId)] > 0 THEN "true" ELSE "false"

\* A write that replaces the rows of the table by the new row
InsertRow_Replace(rows, t) == [u \in DOMAIN rows |-> IF u = t THEN 1 ELSE 0]

\* INSERT INTO steam_games (app_id, date) VALUES (?,?): one more row for t;
\* the only statement of the program that changes rows
InsertRow(rows, t) == [rows EXCEPT ![t] = @ + 1]

\* DB.registerGameAsPosted: result.lastID is the rowid of the new row
registerGameAsPosted(outcome) ==
    IF outcome # "ok" THEN "throws" ELSE "true"

\* ------------------------------------------------------------ pass steps
\* A step of a pass runs from one await on shared state (the configuration
\* cache, the database, the scheduler) up to the next one; the requests to
\* the store and to the webhook in between touch nothing that another pass
\* reads, so they are part of the step.

\* response.id of the main send: a message id, or none
NoId == "none"
ResponseIds == {NoId, "message"}

\* The options of the three webhook.send calls of postGame
MainMessage(meta, postThreads) ==
    [content |-> "main", threadName |-> IF postThreads THEN meta.name ELSE "none",
     threadId |-> NoId, files |-> <<>>, links |-> 0]

ScreenshotsMessage(meta, postThreads, responseId) ==
    [content |-> "Screenshots", threadName |-> "none",
     threadId |-> responseId, files |-> FilesOf(meta, postThreads), links |-> 0]

TrailersMessage(meta, postThreads, responseId) ==
    [content |-> "Trailers", threadName |-> "none",
     threadId |-> responseId, files |-> <<>>, links |-> TrailerLinks(meta, postThreads)]

\* Follow-ups whatever response.id is
FollowUps_WithoutId(meta, postThreads, responseId) ==
    (IF Files(meta, postThreads) > 0
        THEN <<ScreenshotsMessage(meta, postThreads, responseId)>> ELSE <<>>)
      \o (IF TrailerLinks(meta, postThreads) > 0
        THEN <<TrailersMessage(meta, postThreads, responseId)>> ELSE <<>>)

\* The follow-ups of postGame once the main send has answered: none without
\* response.id, else the screenshots if there are files, then the trailers
\* if there are links
FollowUps(meta, postThreads, responseId) ==
    IF responseId = NoId THEN <<>>
    ELSE (IF Files(meta, postThreads) > 0
             THEN <<ScreenshotsMessage(meta, postThreads, responseId)>> ELSE <<>>)
           \o (IF TrailerLinks(meta, postThreads) > 0
             THEN <<TrailersMessage(meta, postThreads, responseId)>> ELSE <<>>)

\* The messages postGame sends, in order, when the main send answers with
\* responseId and no send fails
Planned(meta, postThreads, responseId) ==
    <<MainMessage(meta, postThreads)>> \o FollowUps(meta, postThreads, responseId)

\* An entry of log[p]: one item the dispatch loop has reached.
\*   category: "demo", "coop", "multi", "solo"; "throws" if a test raised
\*   channel : the webhook url the item goes to
\*   onDisk  : the url the configuration file maps the category to just then
\*   primary : "none" (nothing sent), "ok", "failed"
\*   thread  : in thread mode, response.id of the main send; NoId if it
\*             failed or had none
\*   sent    : the messages handed to webhook.send, in order
\*   failed  : position in sent of the send that threw, 0 if none did
\*   posted  : "none", "true", "false"            what postGame returned
\*   storage : outcome of the ledger write, "none" if there was none
\*   reg     : "none", "true", "false", "throws"  registerGameAsPosted's result
Entry(id, primary, sent, failed, posted) ==
    [id |-> id, category |-> "throws", channel |-> "none", onDisk |-> "none",
     primary |-> primary, thread |-> NoId, sent |-> sent, failed |-> failed,
     posted |-> posted, storage |-> "none", reg |-> "none"]

\* The synchronous tail of fetchFilterAndSortGameMetas and the head of the
\* dispatch loop of postGames, for the collected list ms.
AfterCollect(p, ms) ==
    IF \E n \in 1..Len(ms) : FilterThrows(ms[n])
    THEN /\ pc' = [pc EXCEPT ![p] = "returning"]
         /\ fault' = [fault EXCEPT ![p] = "malformed"]
         /\ metas' = [metas EXCEPT ![p] = ms]
         /\ k' = k
    ELSE LET sorted == SortMetas(FilterMetas(ms))
         IN  /\ metas' = [metas EXCEPT ![p] = sorted]
             /\ fault' = fault
             /\ IF sorted = <<>>
                THEN pc' = [pc EXCEPT ![p] = "returning"] /\ k' = k
                ELSE pc' = [pc EXCEPT ![p] = "dispatch"] /\ k' = [k EXCEPT ![p] = 1]

\* A loop over ids that hands the list on after its first id
NextId_Eager(p, ms) ==
    /\ idx' = idx
    /\ AfterCollect(p, ms)

\* Next iteration of the loop over ids with the list ms collected so far
NextId(p, ms) ==
    IF idx[p] < Len(ids[p])
    THEN /\ idx' = [idx EXCEPT ![p] = idx[p] + 1]
         /\ pc' = [pc EXCEPT ![p] = "lookup"]
         /\ metas' = [metas EXCEPT ![p] = ms]
         /\ UNCHANGED <<k, fault>>
    ELSE /\ idx' = idx
         /\ AfterCollect(p, ms)

\* A loop over metas that stays at the same meta
NextMeta_Repeat(p) ==
    /\ metas' = metas
    /\ pc' = [pc EXCEPT ![p] = "dispatch"]
    /\ k' = k

\* Next iteration of the loop over metas
NextMeta(p) ==
    /\ metas' = [metas EXCEPT ![p] = Tail(@)]
    /\ IF Len(metas[p]) > 1
       THEN pc' = [pc EXCEPT ![p] = "dispatch"] /\ k' = [k EXCEPT ![p] = k[p] + 1]
       ELSE pc' = [pc EXCEPT ![p] = "returning"] /\ k' = k

\* What the search request can do: reject, or answer with a page that
\* lists ids (none, when the answer has no data or no match)
SearchResponses ==
    {[rejects |-> TRUE, page |-> <<>>]}
        \cup {[rejects |-> FALSE, page |-> listing] : listing \in Listings}

\* A search without the try block: the rejection leaves the function
fetchGameIds_Unguarded(response) ==
    [raised |-> response.rejects, ids |-> response.page]

\* fetchGameIds: the ids matched in the page, in page order; the list stays
\* empty when the request rejects (the catch block logs and goes on)
fetchGameIds(response) ==
    [raised |-> FALSE, ids |-> IF response.rejects THEN <<>> ELSE response.page]

\* Config.get: the cached object, else the file is read, which can fail
ConfigGet(read) ==
    IF config.loaded THEN config
    ELSE IF read = "ok"
    THEN [loaded |-> TRUE, postThreads |-> configFile.postThreads,
          webhookUrls |-> configFile.webhookUrls]
    ELSE NotLoaded

\* fetchGameIds (ensureAPI, the search request; a failed request leaves ids
\* empty), then postGames up to its first ledger lookup: Config.get.
BeginPass(p) ==
    /\ pc[p] = "fetchIds"
    /\ NoneReturning
    /\ store' = TRUE
    /\ \E response \in SearchResponses : \E read \in {"ok", "fails"} :
        LET listing == fetchGameIds(response).ids
            raised  == fetchGameIds(response).raised
        IN
          /\ nItems + Len(listing) <= MaxItems
          /\ feed' = [feed EXCEPT ![p] = IF response.rejects THEN "failed" ELSE "ok"]
          /\ raised => read = "ok"
          /\ read = "fails" => ~config.loaded
          /\ ids' = [ids EXCEPT ![p] = listing]
          /\ nItems' = nItems + Len(listing)
          /\ config' = ConfigGet(read)
          /\ IF raised
             THEN /\ pc' = [pc EXCEPT ![p] = "returning"]
                  /\ fault' = [fault EXCEPT ![p] = "search"]
                  /\ UNCHANGED <<idx, metas, k>>
             ELSE IF read = "fails"
             THEN /\ pc' = [pc EXCEPT ![p] = "returning"]
                  /\ fault' = [fault EXCEPT ![p] = "config"]
                  /\ UNCHANGED <<idx, metas, k>>
             ELSE IF listing = <<>>
             THEN idx' = idx /\ AfterCollect(p, <<>>)
             ELSE /\ idx' = [idx EXCEPT ![p] = 1]
                  /\ pc' = [pc EXCEPT ![p] = "lookup"]
                  /\ UNCHANGED <<metas, k, fault>>
    /\ UNCHANGED <<log, prev, absent>>
    /\ UNCHANGED <<startState, nPasses, configFile, dbOpen, tableExists, ledger, opened>>
    /\ UNCHANGED <<lastDone, okSends, writeFailed>>

\* What the appdetails request for an id can do: reject (no connection, a
\* timeout, an error status), answer without data, answer with data that
\* has no payload under the id, or answer with a payload under it
Responses(id) ==
    {[kind |-> kd, data |-> BaseMeta(id)] : kd \in {"rejects", "noData", "notKeyed"}}
        \cup {[kind |-> "keyed", data |-> meta] : meta \in MetaSamples(id)}

\* A fetch without the try block: the rejection leaves the function
fetchGameMeta_Unguarded(id, response) ==
    [raised |-> response.kind = "rejects", defined |-> response.kind = "keyed",
     meta |-> response.data]

\* fetchGameMeta: response.data[id]?.data, undefined in every other case;
\* the catch block keeps a rejection inside
fetchGameMeta(id, response) ==
    [raised |-> FALSE, defined |-> response.kind = "keyed", meta |-> response.data]

\* One iteration of the loop of fetchFilterAndSortGameMetas: the ledger
\* lookup and, for an id not posted yet, fetchGameMeta; a meta is pushed,
\* undefined is skipped.
Enrich(p) ==
    /\ pc[p] = "lookup"
    /\ NoneReturning
    /\ \E outcome \in ReadOutcomes :
          /\ Possible(outcome)
          /\ dbOpen' = DbOpenAfter(outcome)
          /\ opened' = OpenedAfter(outcome)
          /\ tableExists' = TableExistsAfter(outcome)
          /\ LET id == ids[p][idx[p]]
                 hasBeenPosted == hasGameBeenPosted(id, outcome)
             IN  CASE hasBeenPosted = "throws" ->
                        /\ pc' = [pc EXCEPT ![p] = "returning"]
                        /\ fault' = [fault EXCEPT ![p] = "ledgerRead"]
                        /\ UNCHANGED <<idx, metas, k>>
                        /\ absent' = absent
                   [] hasBeenPosted = "true" -> NextId(p, metas[p]) /\ absent' = absent
                   [] OTHER ->
                        \E response \in Responses(id) :
                          LET got == fetchGameMeta(id, response)
                          IN  IF got.raised
                              THEN /\ pc' = [pc EXCEPT ![p] = "returning"]
                                   /\ fault' = [fault EXCEPT ![p] = "fetch"]
                                   /\ UNCHANGED <<idx, metas, k, absent>>
                              ELSE IF got.defined
                              THEN NextId(p, Append(metas[p], got.meta)) /\ absent' = absent
                              ELSE /\ NextId(p, metas[p])
                                   /\ absent' = [absent EXCEPT ![p] = @ \cup {idx[p]}]
    /\ UNCHANGED <<ids, log, prev, feed>>
    /\ UNCHANGED <<startState, nPasses, store, config, configFile, ledger>>
    /\ UNCHANGED histVars

\* What postGame returns once its sends are over: the try block returns true
\* only when no send inside it threw.
postGameResult(primaryOk, followUpsOk) == primaryOk /\ followUpsOk

\* Registering whatever postGame returned
ShouldRegister_Always(wasPosted) == TRUE

\* postGames registers the game iff wasPosted
ShouldRegister(wasPosted) == wasPosted

SetLast(p, e) == [log EXCEPT ![p] = [@ EXCEPT ![Len(@)] = e]]
Last(p) == log[p][Len(log[p])]

CountUp(id) == [okSends EXCEPT ![id] = IF @ < 2 THEN @ + 1 ELSE 2]

\* A failed postGame that ends the loop instead of going on
AfterPostGame_StopOnFailure(p, wasPosted) ==
    IF ShouldRegister(wasPosted)
    THEN pc' = [pc EXCEPT ![p] = "register"] /\ UNCHANGED <<k, metas>>
    ELSE pc' = [pc EXCEPT ![p] = "returning"] /\ UNCHANGED <<k, metas>>

\* postGame returned: register, or go on with the next meta
AfterPostGame(p, wasPosted) ==
    IF ShouldRegister(wasPosted)
    THEN pc' = [pc EXCEPT ![p] = "register"] /\ UNCHANGED <<k, metas>>
    ELSE NextMeta(p)

\* The entry of an item that got as far as the choice of its webhook
Classified(e, meta) ==
    [e EXCEPT !.category = Category(meta),
              !.channel  = WebhookUrl(config, Category(meta)),
              !.onDisk   = WebhookUrl(configFile, Category(meta))]

\* One iteration of the dispatch loop up to the ledger write: the delay, the
\* three classification tests, the choice of the webhook, postGame with its
\* media section and its sends.  responseId is what the main send answers
\* with; failedAt is the position of the send that throws, 0 if every send
\* goes through; the sends behind a failed one are not made.
PostGame(p) ==
    /\ pc[p] = "dispatch"
    /\ NoneReturning
    /\ LET meta == Head(metas[p])
           id   == meta.steam_appid
           none == Entry(id, "none", <<>>, 0, "none")
       IN  IF ClassifyThrows(meta) \/ MediaThrows(meta, config.postThreads)
           THEN /\ log' = [log EXCEPT ![p] = Append(@,
                             IF ClassifyThrows(meta) THEN none ELSE Classified(none, meta))]
                /\ pc' = [pc EXCEPT ![p] = "returning"]
                /\ fault' = [fault EXCEPT ![p] = "malformed"]
                /\ UNCHANGED <<k, metas, okSends>>
           ELSE \E responseId \in ResponseIds :
                LET planned == Planned(meta, config.postThreads, responseId)
                IN  \E failedAt \in 0..Len(planned) :
                  LET primaryOk   == failedAt # 1
                      followUpsOk == failedAt \in {0, 1}
                      sent        == IF failedAt = 0 THEN planned ELSE SubSeq(planned, 1, failedAt)
                      wasPosted   == postGameResult(primaryOk, followUpsOk)
                      e           == Entry(id, IF primaryOk THEN "ok" ELSE "failed", sent, failedAt,
                                           IF wasPosted THEN "true" ELSE "false")
                  IN  /\ log' = [log EXCEPT ![p] = Append(@,
                                   Classified([e EXCEPT !.thread = IF primaryOk /\ config.postThreads
                                                                 THEN responseId ELSE NoId],
                                              meta))]
                      /\ okSends' = IF primaryOk THEN CountUp(id) ELSE okSends
                      /\ fault' = fault
                      /\ AfterPostGame(p, wasPosted)
    /\ UNCHANGED <<ids, idx, prev, absent, feed>>
    /\ UNCHANGED progVars
    /\ UNCHANGED <<lastDone, writeFailed, nItems>>

\* this._db.registerGameAsPosted(meta.steam_appid, date)
RegisterGameAsPosted(p) ==
    /\ pc[p] = "register"
    /\ NoneReturning
    /\ \E outcome \in WriteOutcomes :
          /\ Possible(outcome)
          /\ dbOpen' = DbOpenAfter(outcome)
          /\ opened' = OpenedAfter(outcome)
          /\ tableExists' = TableExistsAfter(outcome)
          /\ LET id     == Head(metas[p]).steam_appid
                 result == registerGameAsPosted(outcome)
             IN  /\ log' = SetLast(p, [Last(p) EXCEPT !.storage = outcome, !.reg = result])
                 /\ ledger' = IF outcome = "ok"
                              THEN InsertRow(ledger, ToText(id))
                              ELSE ledger
                 /\ writeFailed' = IF outcome = "ok" THEN writeFailed ELSE writeFailed \cup {id}
                 /\ IF result = "throws"
                    THEN /\ pc' = [pc EXCEPT ![p] = "returning"]
                         /\ fault' = [fault EXCEPT ![p] = "ledgerWrite"]
                         /\ UNCHANGED <<k, metas>>
                    ELSE /\ fault' = fault
                         /\ NextMeta(p)
    /\ UNCHANGED <<ids, idx, prev, absent, feed>>
    /\ UNCHANGED <<startState, nPasses, store, config, configFile>>
    /\ UNCHANGED <<lastDone, okSends, nItems>>

\* ------------------------------------------------------------- scheduler
Summary(p) ==
    [ known    |-> TRUE,
      ids      |-> ids[p],
      recorded |-> {log[p][n].id : n \in {m \in 1..Len(log[p]) : log[p][m].reg = "true"}},
      failed   |-> {log[p][n].id : n \in {m \in 1..Len(log[p]) : log[p][m].primary = "failed"}},
      clean    |-> \A n \in 1..Len(log[p]) : log[p][n].primary = "ok" /\ log[p][n].reg = "true" ]

\* What start() does when the awaited boot pass settles
StartAfterBoot(threw) == IF threw THEN "rejected" ELSE "armed"

\* The promise of postGames settles.  For the boot pass start() goes on to
\* create and start the CronJob, or is rejected by the error of the pass.
\* The rejection of a tick's callback reaches nobody.
PassReturns(p) ==
    /\ pc[p] = "returning"
    /\ pc' = [pc EXCEPT ![p] = "finished"]
    /\ startState' = IF p = 1 THEN StartAfterBoot(fault[p] # "none") ELSE startState
    /\ lastDone' = IF \E q \in Passes \ {p} : Running(q) THEN NoPrev ELSE Summary(p)
    /\ ids' = [ids EXCEPT ![p] = <<>>]
    /\ idx' = [idx EXCEPT ![p] = 0]
    /\ metas' = [metas EXCEPT ![p] = <<>>]
    /\ k' = [k EXCEPT ![p] = 0]
    /\ fault' = [fault EXCEPT ![p] = "none"]
    /\ log' = [log EXCEPT ![p] = <<>>]
    /\ prev' = [prev EXCEPT ![p] = NoPrev]
    /\ absent' = [absent EXCEPT ![p] = {}]
    /\ feed' = [feed EXCEPT ![p] = "none"]
    /\ UNCHANGED <<nPasses, store, config, configFile, dbOpen, tableExists, ledger, opened>>
    /\ UNCHANGED <<okSends, writeFailed, nItems>>

\* A job started before the boot pass is awaited
TimerArmed_BeforeBootPass == startState # "rejected"

\* job.start() has run: start() reaches it behind the awaited boot pass
TimerArmed == startState = "armed"

\* The CronJob fires: the callback calls fetchGameIds whatever earlier
\* callbacks are doing.
Tick ==
    /\ TimerArmed
    /\ NoneReturning
    /\ nPasses < MaxPasses
    /\ nPasses' = nPasses + 1
    /\ pc' = [pc EXCEPT ![nPasses + 1] = "fetchIds"]
    /\ prev' = [prev EXCEPT ![nPasses + 1] =
                   IF \E q \in Passes : Running(q) THEN NoPrev ELSE lastDone]
    /\ UNCHANGED <<ids, idx, metas, k, fault, log, absent, feed>>
    /\ UNCHANGED <<startState, store, config, configFile, dbOpen, tableExists, ledger, opened>>
    /\ UNCHANGED histVars

Next ==
    \/ \E p \in Passes : BeginPass(p)
    \/ \E p \in Passes : Enrich(p)
    \/ \E p \in Passes : PostGame(p)
    \/ \E p \in Passes : RegisterGameAsPosted(p)
    \/ \E p \in Passes : PassReturns(p)
    \/ Tick

Spec == Init /\ [][Next]_vars

\* ------------------------------------------ every awaited call settles
\* The steps of a pass are continuations of awaited calls: the requests to
\* the store (axios timeout), the sends and the database calls resolve or
\* reject, and the event loop then runs the continuation.
PassStep(p) ==
    \/ BeginPass(p)
    \/ Enrich(p)
    \/ PostGame(p)
    \/ RegisterGameAsPosted(p)
    \/ PassReturns(p)

\* The boot pass found nothing and returned, start() armed the job, and
\* the job has fired twice before either pass got its search answered: two
\* passes run at the same time.
InitFair ==
    /\ startState = "armed"
    /\ nPasses = 3
    /\ pc = [p \in Passes |-> IF p = 1 THEN "finished"
                              ELSE IF p \in {2, 3} THEN "fetchIds" ELSE "unstarted"]
    /\ ids = [p \in Passes |-> <<>>]
    /\ idx = [p \in Passes |-> 0]
    /\ metas = [p \in Passes |-> <<>>]
    /\ k = [p \in Passes |-> 0]
    /\ fault = [p \in Passes |-> "none"]
    /\ store = TRUE
    /\ configFile \in [postThreads : BOOLEAN, webhookUrls : {"A"}]
    /\ config = [loaded |-> TRUE, postThreads |-> configFile.postThreads,
                 webhookUrls |-> configFile.webhookUrls]
    /\ dbOpen = FALSE
    /\ opened = 0
    /\ tableExists = FALSE
    /\ ledger = [t \in TextIds |-> 0]
    /\ log = [p \in Passes |-> <<>>]
    /\ prev = [p \in Passes |-> IF p = 2 THEN [NoPrev EXCEPT !.known = TRUE, !.clean = TRUE]
                                          ELSE NoPrev]
    /\ absent = [p \in Passes |-> {}]
    /\ feed = [p \in Passes |-> "none"]
    /\ lastDone = [NoPrev EXCEPT !.known = TRUE, !.clean = TRUE]
    /\ okSends = [i \in Ids |-> 0]
    /\ writeFailed = {}
    /\ nItems = 0

NextFair == \E p \in Passes : PassStep(p)

SpecFair == InitFair /\ [][NextFair]_vars /\ WF_vars(NextFair)

TypeOK ==
    /\ startState \in {"booting", "armed", "rejected"}
    /\ nPasses \in 1..MaxPasses
    /\ \A p \in Passes : idx[p] \in 0..MaxItems /\ k[p] \in 0..MaxItems
    /\ \A t \in TextIds : ledger[t] \in Nat


\* ------------------------------------------ the configuration is edited
\* The program never writes its configuration; an operator can: the file
\* gets another mapping of the categories to webhook urls while the process
\* runs.
ConfigFileEdited ==
    /\ configFile.webhookUrls = "A"
    /\ configFile' = [configFile EXCEPT !.webhookUrls = "B"]
    /\ UNCHANGED passVars
    /\ UNCHANGED <<startState, nPasses, store, config, dbOpen, tableExists, ledger, opened>>
    /\ UNCHANGED histVars

NextConfig == Next \/ ConfigFileEdited

SpecConfig == Init /\ [][NextConfig]_vars

\* ------------------------------------------------ the database is opened
\* DB.getDb tests this._db and, finding it unset, awaits open() before it
\* assigns the handle: the test and the assignment are two steps of the
\* call, and a call of another pass can run between them.

\* getDb of the lookup at hand finds no handle and awaits open()
GetDbAwaitsOpen(p) ==
    /\ pc[p] = "lookup"
    /\ NoneReturning
    /\ ~dbOpen
    /\ pc' = [pc EXCEPT ![p] = "opening"]
    /\ UNCHANGED <<ids, idx, metas, k, fault, log, prev, absent, feed>>
    /\ UNCHANGED progVars
    /\ UNCHANGED histVars

\* open() settles: the handle is assigned to this._db and the lookup goes
\* on with it, or the rejection leaves hasGameBeenPosted and the pass
OpenResolves(p) ==
    /\ pc[p] = "opening"
    /\ NoneReturning
    /\ \E rejects \in BOOLEAN :
          IF rejects
          THEN /\ pc' = [pc EXCEPT ![p] = "returning"]
               /\ fault' = [fault EXCEPT ![p] = "ledgerRead"]
               /\ UNCHANGED <<dbOpen, opened>>
          ELSE /\ pc' = [pc EXCEPT ![p] = "lookup"]
               /\ fault' = fault
               /\ dbOpen' = TRUE
               /\ opened' = opened + 1
    /\ UNCHANGED <<ids, idx, metas, k, log, prev, absent, feed>>
    /\ UNCHANGED <<startState, nPasses, store, config, configFile, tableExists, ledger>>
    /\ UNCHANGED histVars

NextDb ==
    \/ Next
    \/ \E p \in Passes : GetDbAwaitsOpen(p)
    \/ \E p \in Passes : OpenResolves(p)

SpecDb == Init /\ [][NextDb]_vars

\* ------------------------------------------- the dispatch of any one item
\* The dispatch loop of a pass at its only item, for the payloads the store
\* can answer with: every letter case of the type, every set of the category
\* codes the tests look for, screenshots and movies from none to more than
\* ten, and payloads with a field missing.
TypeTags == {"demo", "Demo", "DEMO", "game", Undefined}
CategoryCodes == CoopIds \cup MultiIds \cup {2}
ScreenshotCounts == {0, 1, 9, 10, 11, 12}
MovieCounts == {0, 1, 2}

ClassifySamples(id) ==
    { [BaseMeta(id) EXCEPT !.type = t, !.categories = c] :
        t \in TypeTags,
        c \in {[present |-> FALSE, ids |-> {}]}
                 \cup {[present |-> TRUE, ids |-> cs] : cs \in SUBSET CategoryCodes} }

MediaSamples(id) ==
    { [BaseMeta(id) EXCEPT !.screenshots = sh, !.movies = mv] :
        sh \in {[present |-> FALSE, n |-> 0]}
                 \cup {[present |-> TRUE, n |-> n] : n \in ScreenshotCounts},
        mv \in {[present |-> FALSE, n |-> 0, mp4 |-> TRUE]}
                 \cup {[present |-> TRUE, n |-> n, mp4 |-> b] : n \in MovieCounts, b \in BOOLEAN} }

DispatchSamples(id) == ClassifySamples(id) \cup MediaSamples(id)

\* Pass 1 has read the configuration, found its one id unrecorded, fetched
\* the payload and kept it: the loop over metas begins.
InitDispatch ==
    /\ startState = "booting"
    /\ nPasses = 1
    /\ pc = [p \in Passes |-> IF p = 1 THEN "dispatch" ELSE "unstarted"]
    /\ \E id \in Ids : \E meta \in DispatchSamples(id) :
          /\ ids = [p \in Passes |-> IF p = 1 THEN <<id>> ELSE <<>>]
          /\ metas = [p \in Passes |-> IF p = 1 THEN <<meta>> ELSE <<>>]
    /\ idx = [p \in Passes |-> IF p = 1 THEN 1 ELSE 0]
    /\ k = [p \in Passes |-> IF p = 1 THEN 1 ELSE 0]
    /\ fault = [p \in Passes |-> "none"]
    /\ store = TRUE
    /\ configFile \in [postThreads : BOOLEAN, webhookUrls : {"A"}]
    /\ config = [loaded |-> TRUE, postThreads |-> configFile.postThreads,
                 webhookUrls |-> configFile.webhookUrls]
    /\ dbOpen = TRUE
    /\ opened = 1
    /\ tableExists = TRUE
    /\ ledger = [t \in TextIds |-> 0]
    /\ log = [p \in Passes |-> <<>>]
    /\ prev = [p \in Passes |-> NoPrev]
    /\ absent = [p \in Passes |-> {}]
    /\ feed = [p \in Passes |-> IF p = 1 THEN "ok" ELSE "none"]
    /\ lastDone = NoPrev
    /\ okSends = [i \in Ids |-> 0]
    /\ writeFailed = {}
    /\ nItems = 1

NextDispatch == \E p \in Passes : PostGame(p)

SpecDispatch == InitDispatch /\ [][NextDispatch]_vars


\* ------------------------------------- the filter and sort of any listing
\* The synchronous tail of fetchFilterAndSortGameMetas for the lists the loop
\* over ids can have collected: every id with either name, with or without
\* release_date, coming soon or not, dated in the past, today, in the future
\* or with a text that is no date.
ReleaseTexts == {"1 Jan, 2024", "2 Jan, 2024", "10 Jan, 2024", "1 Jan, 2030", "Coming soon"}

OrderSamples ==
    { [BaseMeta(id) EXCEPT !.name = nm, !.release_date = rd] :
        id \in Ids, nm \in {NameOrder[r] : r \in 1..Len(NameOrder)},
        rd \in {[present |-> FALSE, coming_soon |-> FALSE, date |-> ""]}
                 \cup {[present |-> TRUE, coming_soon |-> cs, date |-> d] :
                         cs \in BOOLEAN, d \in ReleaseTexts} }

\* Pass 1 has gone through its listing: no id was recorded and every payload
\* was there.
InitOrder ==
    /\ startState = "booting"
    /\ nPasses = 1
    /\ pc = [p \in Passes |-> IF p = 1 THEN "collected" ELSE "unstarted"]
    /\ \E ms \in SeqsUpTo(OrderSamples, MaxItems) :
          /\ ids = [p \in Passes |-> IF p = 1 THEN [n \in 1..Len(ms) |-> ms[n].steam_appid] ELSE <<>>]
          /\ metas = [p \in Passes |-> IF p = 1 THEN ms ELSE <<>>]
          /\ idx = [p \in Passes |-> IF p = 1 THEN Len(ms) ELSE 0]
          /\ nItems = Len(ms)
    /\ k = [p \in Passes |-> 0]
    /\ fault = [p \in Passes |-> "none"]
    /\ store = TRUE
    /\ configFile \in [postThreads : BOOLEAN, webhookUrls : {"A"}]
    /\ config = [loaded |-> TRUE, postThreads |-> configFile.postThreads,
                 webhookUrls |-> configFile.webhookUrls]
    /\ dbOpen = TRUE
    /\ opened = 1
    /\ tableExists = TRUE
    /\ ledger = [t \in TextIds |-> 0]
    /\ log = [p \in Passes |-> <<>>]
    /\ prev = [p \in Passes |-> NoPrev]
    /\ absent = [p \in Passes |-> {}]
    /\ feed = [p \in Passes |-> IF p = 1 THEN "ok" ELSE "none"]
    /\ lastDone = NoPrev
    /\ okSends = [i \in Ids |-> 0]
    /\ writeFailed = {}

\* metas.filter(filterReleased).sort(compareReleaseDatesOrNames) and the
\* return to postGames
FilterAndSort(p) ==
    /\ pc[p] = "collected"
    /\ AfterCollect(p, metas[p])
    /\ UNCHANGED <<ids, idx, log, prev, absent, feed>>
    /\ UNCHANGED progVars
    /\ UNCHANGED histVars

NextOrder == \E p \in Passes : FilterAndSort(p)

SpecOrder == InitOrder /\ [][NextOrder]_vars


\* ================================================================ claims
Entries(p) == 1..Len(log[p])

\* C1 as claimed: a pass that starts after a pass with the same search
\* listing has returned, every item of which that was announced having been
\* sent and recorded, sends nothing at all.
C1_SecondPassSendsNothing ==
    \A q \in Passes :
        (prev[q].known /\ pc[q] # "fetchIds" /\ ids[q] = prev[q].ids /\ prev[q].clean)
            => \A n \in Entries(q) : log[q][n].primary = "none"

\* C1 as amended: a pass that starts after another pass has returned neither
\* fetches metadata for nor sends an id that the earlier pass sent and
\* recorded; such an id is dropped by the ledger lookup.
C1_RecordedIdsAreDropped ==
    \A q \in Passes :
        prev[q].known =>
            /\ \A n \in 1..Len(metas[q]) : metas[q][n].steam_appid \notin prev[q].recorded
            /\ \A n \in Entries(q) : log[q][n].id \notin prev[q].recorded

\* C1 witness: the second pass has run through the same listing, all of the
\* first pass's announcements recorded, and returns.
C1_Witness ==
    \E q \in Passes :
        /\ prev[q].known /\ prev[q].clean /\ prev[q].recorded # {}
        /\ ids[q] = prev[q].ids
        /\ pc[q] = "returning" /\ fault[q] = "none"

\* C2: every id with a row in the ledger has had a successful primary send,
\* and a ledger write is only made for an item postGame returned true for.
C2_LedgerOnlyAfterSuccessfulSend ==
    /\ \A id \in Ids : ledger[ToText(id)] > 0 => okSends[id] > 0
    /\ \A p \in Passes : \A n \in Entries(p) :
          log[p][n].reg # "none" => log[p][n].primary = "ok" /\ log[p][n].posted = "true"
    /\ \A p \in Passes : pc[p] = "register" => Last(p).primary = "ok" /\ Last(p).posted = "true"

\* C2 witness: an id whose send failed is absent from a ledger that holds
\* another id.
C2_Witness ==
    \E p \in Passes : \E n \in Entries(p) :
        /\ log[p][n].primary = "failed"
        /\ ledger[ToText(log[p][n].id)] = 0
        /\ \E t \in TextIds : ledger[t] > 0

\* C3: the failed send of an item A writes no ledger row for A and does not
\* end the pass: the item after A is dispatched next; an item B after A
\* whose postGame returned true has its ledger write made, and is in the
\* ledger once that write is acknowledged.
C3_DispatchFailureIsolation ==
    \A p \in Passes : \A i \in Entries(p) :
        log[p][i].primary = "failed" =>
            /\ log[p][i].reg = "none"
            /\ fault[p] \in {"none", "malformed", "ledgerWrite"}
            /\ i = Len(log[p]) =>
                  /\ fault[p] = "none"
                  /\ IF metas[p] # <<>>
                     THEN pc[p] = "dispatch" /\ k[p] = i + 1
                     ELSE pc[p] = "returning"
            /\ \A j \in Entries(p) :
                  (j > i /\ log[p][j].posted = "true") =>
                      /\ log[p][j].reg = "none" => pc[p] = "register" /\ k[p] = j
                      /\ log[p][j].reg = "true" => ledger[ToText(log[p][j].id)] > 0

\* C3 witness: A's send failed, B's succeeded, B is in the ledger, A is not.
C3_Witness ==
    \E p \in Passes :
        /\ Len(log[p]) = 2
        /\ log[p][1].primary = "failed"
        /\ log[p][2].reg = "true"
        /\ ledger[ToText(log[p][2].id)] > 0
        /\ ledger[ToText(log[p][1].id)] = 0

\* C4 as claimed: at most one pass is running at any time.
C4_PassesNeverOverlap ==
    Cardinality({p \in Passes : Running(p)}) <= 1

\* C5 as claimed: once the boot pass is over, whatever fault it met, the
\* periodic timer is armed.
C5_TimerArmedAfterBoot ==
    pc[1] = "finished" => startState = "armed"

\* C6 as claimed: an id has more than one successful primary send only if a
\* ledger write for it failed.
C6_DuplicateOnlyOnStorageFailure ==
    \A id \in Ids : okSends[id] > 1 => id \in writeFailed

\* C7 as claimed: when the fault of an item has ended a pass, no item that
\* comes after that item is left unattempted.
C7_BadItemNeverAbortsBatch ==
    \A p \in Passes :
        (pc[p] = "returning" /\ fault[p] \in {"malformed", "ledgerWrite"}) =>
            IF k[p] > 0
            THEN Len(metas[p]) <= 1
            ELSE \A n \in 1..Len(metas[p]) : \A m \in 1..Len(metas[p]) :
                    (FilterThrows(metas[p][n]) /\ m > n) =>
                        (FilterThrows(metas[p][m]) \/ ~filterReleased(metas[p][m]))

\* C8 as claimed: registerGameAsPosted returns false on every storage error
\* and true iff the insert was acknowledged.
C8_RecordReturnsFalseOnStorageError ==
    \A p \in Passes : \A n \in Entries(p) :
        log[p][n].storage # "none" =>
            /\ log[p][n].storage # "ok" => log[p][n].reg = "false"
            /\ log[p][n].storage = "ok" <=> log[p][n].reg = "true"

\* C9 as claimed: postGame returns true iff the primary send succeeded.
C9_TrueIffPrimarySucceeded ==
    \A p \in Passes : \A n \in Entries(p) :
        log[p][n].posted # "none" =>
            (log[p][n].posted = "true" <=> log[p][n].primary = "ok")

\* C10 as claimed: the ledger holds at most one row per app id.
C10_AtMostOneRecordPerId ==
    \A t \in TextIds : ledger[t] <= 1

\* The ids has(id) answers true for when the storage works
Recorded == {id \in Ids : hasGameBeenPosted(id, "ok") = "true"}

\* C11: no step removes a row of the ledger: the row count of every id never
\* falls, so the set of recorded ids after a step is a superset of the set
\* before it, and an id has(id) has answered true for is answered true for
\* by every later lookup that returns.
C11_LedgerOnlyGrows ==
    [][ /\ \A t \in TextIds : ledger'[t] >= ledger[t]
        /\ Recorded \subseteq Recorded' ]_vars

\* C11 witness: an earlier pass recorded an id, the ledger holds it, and the
\* lookup of the next pass has answered true for it: the pass returns with
\* nothing collected.
C11_Witness ==
    \E q \in Passes :
        /\ prev[q].known /\ Len(ids[q]) = 1
        /\ ids[q][1] \in prev[q].recorded /\ ids[q][1] \in Recorded
        /\ pc[q] = "returning" /\ fault[q] = "none" /\ log[q] = <<>>

\* C12 as claimed: an id whose primary send failed in the pass before, and
\* that this pass has discovered with its metadata present and released, has
\* been handed to webhook.send again by the time this pass returns.
C12_FailedSendIsRetried ==
    \A q \in Passes :
        (prev[q].known /\ pc[q] = "returning") =>
            \A n \in 1..Len(metas[q]) :
                LET meta == metas[q][n]
                IN  ( /\ meta.steam_appid \in prev[q].failed
                      /\ ~FilterThrows(meta) /\ filterReleased(meta) )
                        => \E e \in Entries(q) :
                              /\ log[q][e].id = meta.steam_appid
                              /\ log[q][e].primary # "none"

\* The item the dispatch loop of pass p is at
Current(p) == Head(metas[p])

\* C13: an item whose classification returns goes to the channel of demo
\* iff its type tag is "demo" in any letter case; otherwise to co-op iff its
\* category codes meet {9, 38}; otherwise to multi-player iff they meet
\* {1, 36, 49}; otherwise to solo.  The entry the dispatch of the item adds
\* carries that category and the url configured for it.
C13_ClassificationPrecedence ==
    [][ \A p \in Passes :
          (pc[p] = "dispatch" /\ Len(log'[p]) = Len(log[p]) + 1 /\ ~ClassifyThrows(Current(p))) =>
             LET meta  == Current(p)
                 codes == meta.categories.ids
                 e     == log'[p][Len(log'[p])]
                 want  == IF meta.type \in {"demo", "Demo", "DEMO"} THEN "demo"
                          ELSE IF codes \cap {9, 38} # {} THEN "coop"
                          ELSE IF codes \cap {1, 36, 49} # {} THEN "multi"
                          ELSE "solo"
             IN  /\ e.category = want
                 /\ e.channel = [mapping |-> config.webhookUrls, channel |-> want] ]_vars

\* C13 witness: a demo that carries the co-op code 9 and the multi-player
\* code 1 has been sent to the demo channel.
C13_Witness ==
    \E p \in Passes :
        /\ pc[p] = "register"
        /\ Current(p).type = "Demo" /\ {1, 9} \subseteq Current(p).categories.ids
        /\ Last(p).category = "demo" /\ Last(p).channel.channel = "demo"
        /\ Last(p).primary = "ok"

\* C14 as claimed: the classification of every item the dispatch loop
\* reaches returns one of the four categories, whatever fields the payload
\* lacks.
C14_ClassifierIsTotal ==
    \A p \in Passes : \A n \in Entries(p) :
        log[p][n].category \in {"demo", "coop", "multi", "solo"}

\* The filter and sort of pass p has returned in this step
Filtered(p) == pc[p] = "collected" /\ pc'[p] # "collected" /\ fault'[p] = "none"

\* C15: the filter stage keeps an item iff its coming_soon flag is false and
\* its release date parses to an instant at or before now: every collected
\* item is in the returned list iff it is such an item, and the returned
\* list has as many items as were kept.
C15_ReleaseFiltering ==
    [][ \A p \in Passes : Filtered(p) =>
          LET in   == metas[p]
              out  == metas'[p]
              Kept(m) == /\ m.release_date.coming_soon = FALSE
                         /\ GetTime(m.release_date.date) # NaN
                         /\ GetTime(m.release_date.date) <= Now
          IN  /\ \A n \in 1..Len(in) : (\E j \in 1..Len(out) : out[j] = in[n]) <=> Kept(in[n])
              /\ Len(out) = Cardinality({n \in 1..Len(in) : Kept(in[n])}) ]_vars

\* C15 witness: of two collected items the filter has kept the one released
\* today and dropped the other.
C15_Witness ==
    /\ pc[1] = "dispatch" /\ k[1] = 1 /\ log[1] = <<>>
    /\ Len(ids[1]) = 2 /\ Len(metas[1]) = 1
    /\ metas[1][1].release_date.date = "10 Jan, 2024"

\* The lists with the items of s in any order
Reorderings(s) ==
    { [n \in 1..Len(s) |-> s[f[n]]] :
        f \in {g \in [1..Len(s) -> 1..Len(s)] : \A a, b \in 1..Len(s) : g[a] = g[b] => a = b} }

\* C16 as claimed: the list a pass dispatches is in ascending release-date
\* order, items of the same date in descending name order, and it is the
\* same list for every order in which the same items were collected.
C16_AnnouncementOrder ==
    [][ \A p \in Passes : Filtered(p) =>
          LET out == metas'[p]
          IN  /\ \A a, b \in 1..Len(out) : a < b =>
                    LET dateA == GetTime(out[a].release_date.date)
                        dateB == GetTime(out[b].release_date.date)
                    IN  /\ dateA <= dateB
                        /\ dateA = dateB => NameRank(out[a].name) >= NameRank(out[b].name)
              /\ \A other \in Reorderings(metas[p]) : SortMetas(FilterMetas(other)) = out ]_vars

\* C17: start() runs the boot pass at once and arms the timer only when that
\* pass has returned: while start() is booting pass 1 is running and is the
\* only pass, and no pass of the timer has started before pass 1 finished.
C17_BootOrdering ==
    /\ startState = "booting" => Running(1) /\ nPasses = 1
    /\ startState = "armed" => pc[1] = "finished"
    /\ \A p \in Passes \ {1} : pc[p] # "unstarted" => pc[1] = "finished"

\* C17 witness: the boot pass has dispatched an item and finished, and the
\* first pass of the timer has just been started.
C17_Witness ==
    /\ pc[1] = "finished" /\ startState = "armed"
    /\ pc[2] = "fetchIds" /\ nPasses = 2
    /\ \E id \in Ids : okSends[id] > 0

\* C18 as claimed: every primary send goes to the url that the mapping in
\* the configuration file gives the item's category at the time of the send.
C18_ChannelLookedUpAtSendTime ==
    \A p \in Passes : \A n \in Entries(p) :
        log[p][n].primary # "none" => log[p][n].channel = log[p][n].onDisk

\* The dispatch loop of pass p has gone through one item in this step
Dispatched(p) == pc[p] = "dispatch" /\ Len(log'[p]) = Len(log[p]) + 1

\* C19: for an item with n screenshot urls the screenshots follow-up carries
\* exactly min(n, 10) attachments, the first urls in their order, named
\* screenshot_0 upwards; there is at most one such message and no other
\* message carries files; in thread mode, with a message id answered, n >= 1
\* and no send failing, there is exactly one.
C19_AttachmentCap ==
    [][ \A p \in Passes : Dispatched(p) =>
          LET meta  == Current(p)
              n     == IF meta.screenshots.present THEN meta.screenshots.n ELSE 0
              e     == log'[p][Len(log'[p])]
              shots == {j \in 1..Len(e.sent) : e.sent[j].content = "Screenshots"}
          IN  /\ Cardinality(shots) <= 1
              /\ \A j \in 1..Len(e.sent) :
                    LET files == e.sent[j].files
                    IN  IF j \in shots
                        THEN /\ Len(files) = (IF n < 10 THEN n ELSE 10)
                             /\ \A i \in 1..Len(files) :
                                   files[i].attachment = i /\ files[i].name = i - 1
                        ELSE files = <<>>
              /\ (config.postThreads /\ e.thread # NoId /\ n >= 1 /\ e.failed = 0)
                    => Cardinality(shots) = 1 ]_vars

\* C19 witness: an item with twelve screenshots has been sent in thread mode
\* and its screenshots message carries ten files.
C19_Witness ==
    \E p \in Passes :
        /\ pc[p] = "register" /\ config.postThreads
        /\ Current(p).screenshots.n = 12
        /\ Len(Last(p).sent) >= 2
        /\ Last(p).sent[2].content = "Screenshots"
        /\ Len(Last(p).sent[2].files) = 10

\* C20: the first message sent is the main message and no other is; a
\* follow-up is sent only when the main send succeeded and answered with a
\* message id, and carries that id as its thread; the screenshots follow-up
\* is sent only for an item with a screenshot, the trailers follow-up only
\* for one with a trailer, the screenshots before the trailers; without
\* thread mode nothing but the main message is sent.
C20_ThreadModeProtocol ==
    [][ \A p \in Passes : Dispatched(p) =>
          LET meta == Current(p)
              e    == log'[p][Len(log'[p])]
              sent == e.sent
          IN  /\ \A j \in 1..Len(sent) : (sent[j].content = "main") <=> (j = 1)
              /\ \A j \in 2..Len(sent) :
                    /\ e.primary = "ok" /\ e.thread # NoId
                    /\ sent[j].threadId = e.thread
                    /\ sent[j].content = "Screenshots"
                          => meta.screenshots.present /\ meta.screenshots.n >= 1
                    /\ sent[j].content = "Trailers"
                          => meta.movies.present /\ meta.movies.n >= 1
                    /\ \A i \in 2..Len(sent) :
                          (sent[i].content = "Screenshots" /\ sent[j].content = "Trailers") => i < j
              /\ ~config.postThreads => Len(sent) <= 1 ]_vars

\* C20 witness: in thread mode the main message, the screenshots and the
\* trailers have been sent in this order, both follow-ups to the thread of
\* the message id the main send answered with.
C20_Witness ==
    \E p \in Passes :
        /\ pc[p] = "register" /\ config.postThreads
        /\ Len(Last(p).sent) = 3 /\ Last(p).thread = "message"
        /\ Last(p).sent[1].content = "main"
        /\ Last(p).sent[2].content = "Screenshots" /\ Last(p).sent[2].threadId = "message"
        /\ Last(p).sent[3].content = "Trailers" /\ Last(p).sent[3].threadId = "message"

\* The ids of a pass for which fetchGameMeta gave undefined at every place
\* the listing names them
AbsentIds(p) ==
    {ids[p][n] : n \in absent[p]}
        \ {ids[p][n] : n \in (1..Len(ids[p])) \ absent[p]}

\* C21: an id whose metadata request fails or answers without a payload
\* under the id is skipped without an error: no pass ends by a fetch error,
\* such an id has no metadata in the list, no message and no ledger write
\* of the pass, the loop goes on to the ids listed after it, and the pass
\* leaves the loop only after the last id unless the ledger or the
\* configuration raised.
C21_AbsentMetaIsSkipped ==
    \A p \in Passes :
        /\ fault[p] # "fetch"
        /\ absent[p] \subseteq 1..Len(ids[p])
        /\ pc[p] = "lookup" => \A n \in absent[p] : n < idx[p]
        /\ (pc[p] \in {"dispatch", "register", "returning"}
                /\ fault[p] \notin {"ledgerRead", "config"}) => idx[p] = Len(ids[p])
        /\ Len(metas[p]) <= Len(ids[p]) - Cardinality(absent[p])
        /\ Len(log[p]) <= Len(ids[p]) - Cardinality(absent[p])
        /\ pc[p] = "dispatch"
              => Len(log[p]) + Len(metas[p]) <= Len(ids[p]) - Cardinality(absent[p])
        /\ \A id \in AbsentIds(p) :
              /\ \A n \in 1..Len(metas[p]) : metas[p][n].steam_appid # id
              /\ \A n \in Entries(p) : log[p][n].id # id

\* C21 witness: the first id of a listing of two had no metadata, the pass
\* went on, and the second id has been sent and recorded.
C21_Witness ==
    \E p \in Passes :
        /\ Len(ids[p]) = 2 /\ absent[p] = {1} /\ ids[p][1] # ids[p][2]
        /\ pc[p] = "returning" /\ fault[p] = "none"
        /\ Len(log[p]) = 1
        /\ log[p][1].id = ids[p][2] /\ log[p][1].primary = "ok" /\ log[p][1].reg = "true"

\* C22: a pass whose search request failed has an empty id list; it makes
\* no ledger lookup and no metadata request, sends nothing and writes
\* nothing, the ledger and the database handle are as they were, and the
\* pass takes no step but its return: the search is not asked again before
\* the scheduler starts the next pass.
C22_FailedDiscoveryIsEmptyPass ==
    [][ \A p \in Passes :
          /\ feed'[p] = "failed" =>
                /\ ids'[p] = <<>> /\ idx'[p] = 0
                /\ metas'[p] = <<>> /\ log'[p] = <<>> /\ absent'[p] = {}
                /\ pc'[p] = "returning"
                /\ fault'[p] \in {"none", "config"}
          /\ (feed[p] = "failed" \/ feed'[p] = "failed") =>
                /\ ledger' = ledger /\ dbOpen' = dbOpen /\ tableExists' = tableExists
                /\ okSends' = okSends
          /\ feed[p] = "failed" =>
                \/ pc'[p] = "finished" /\ feed'[p] = "none"
                \/ pc'[p] = "returning" /\ feed'[p] = "failed" /\ ids'[p] = <<>> ]_vars

\* C22 witness: the search of a pass after the boot pass failed while an id
\* the ledger does not hold could have been listed; the pass is about to
\* return with nothing fetched or sent.
C22_Witness ==
    \E p \in Passes \ {1} :
        /\ feed[p] = "failed" /\ pc[p] = "returning" /\ fault[p] = "none"
        /\ ids[p] = <<>> /\ log[p] = <<>>
        /\ \E id \in Ids : ledger[ToText(id)] = 0

\* C23: the items of a pass are handled one after the other. While the
\* pass looks ids up and fetches metadata it has sent nothing, and only
\* the ids before the one at hand have been fetched; it sends only after
\* the last id was handled; when the send of an item is about to start,
\* every earlier item of the pass has had its send, its follow-ups and,
\* if it was posted, its ledger write finished; while the ledger write of
\* an item is awaited that item is the last one sent and all items before
\* it are finished.
C23_ItemsInSequence ==
    \A p \in Passes :
        LET finished(n) ==
                /\ log[p][n].posted \in {"true", "false"}
                /\ log[p][n].posted = "true" => log[p][n].reg = "true"
                /\ log[p][n].posted = "false" => log[p][n].reg = "none"
        IN  /\ pc[p] \in {"fetchIds", "lookup"} => log[p] = <<>> /\ k[p] = 0
            /\ pc[p] = "lookup" =>
                  /\ idx[p] \in 1..Len(ids[p])
                  /\ Len(metas[p]) + Cardinality(absent[p]) <= idx[p] - 1
            /\ pc[p] \in {"dispatch", "register"} =>
                  /\ idx[p] = Len(ids[p])
                  /\ metas[p] # <<>>
            /\ pc[p] = "dispatch" =>
                  /\ Len(log[p]) = k[p] - 1
                  /\ \A n \in Entries(p) : finished(n)
            /\ pc[p] = "register" =>
                  /\ Len(log[p]) = k[p]
                  /\ \A n \in 1..(k[p] - 1) : finished(n)
                  /\ Last(p).id = Current(p).steam_appid
                  /\ Last(p).posted = "true" /\ Last(p).reg = "none"

\* C23 witness: the send of the second item of a pass is about to start;
\* the first item was sent with a follow-up and recorded, and both ids had
\* been looked up and fetched before that send.
C23_Witness ==
    \E p \in Passes :
        /\ pc[p] = "dispatch" /\ k[p] = 2 /\ idx[p] = 2
        /\ Len(log[p]) = 1 /\ Len(log[p][1].sent) >= 2
        /\ log[p][1].posted = "true" /\ log[p][1].reg = "true"
        /\ ledger[ToText(log[p][1].id)] > 0

\* C24 as claimed: whatever the interleaving of the ledger calls, open()
\* resolves with a database handle at most once in the life of the process.
C24_HandleOpenedOnce == opened <= 1

\* C25 as claimed: the messages a pass has sent successfully are for ids
\* that differ from one another.
C25_EachIdSentOncePerPass ==
    \A p \in Passes : \A a, b \in Entries(p) :
        (a # b /\ log[p][a].primary = "ok" /\ log[p][b].primary = "ok")
            => log[p][a].id # log[p][b].id

\* The times a value occurs in a sequence
Count(s, x) == Cardinality({n \in 1..Len(s) : s[n] = x})

\* C26: when every awaited call settles, a pass that has started returns;
\* on the way the ids it has fetched metadata for (kept or absent) and the
\* ids it has dispatched occur no more often than the search listed them,
\* so no listed id is fetched or dispatched twice.
C26_PassTerminates ==
    /\ [](\A p \in Passes : \A id \in Ids :
            /\ Count([n \in 1..Len(metas[p]) |-> metas[p][n].steam_appid], id)
                  + Cardinality({n \in absent[p] : ids[p][n] = id})
                  <= Count(ids[p], id)
            /\ Count([n \in Entries(p) |-> log[p][n].id], id) <= Count(ids[p], id))
    /\ (\E p \in Passes : Running(p)) ~> (\A p \in Passes : pc[p] \in {"unstarted", "finished"})

\* C26 witness: a pass that listed two ids has fetched and dispatched both
\* and is about to return, while the other pass still waits for its search.
C26_Witness ==
    \E p, q \in Passes :
        /\ p # q /\ pc[q] = "fetchIds"
        /\ pc[p] = "returning" /\ fault[p] = "none"
        /\ Len(ids[p]) = 2 /\ Len(log[p]) = 2
        /\ \A n \in Entries(p) : log[p][n].primary = "ok"

====
